---- MODULE Spec2Model ----
(***************************************************************************)
(* Model of the Sp500Scan dashboard client: the Application Shell (App),   *)
(* the Ranking Table View (TopTable) and the Detail View (TickerDetail).   *)
(* JavaScript strings are sequences of one-character strings; null is the  *)
(* record Null; an absent object property is an absent record field.       *)
(***************************************************************************)
EXTENDS Integers, Sequences, FiniteSets, Bags, TLC

\* ------------------------------------------------------------------ bounds
\* longest filter string typed into the search box
MaxQLen == 2
\* largest magnitude typed into the "Top" number box
MaxN == 4
\* most rows in a summary artifact
MaxRows == 3
\* most fetches in flight at once
MaxInflight == 3

\* ------------------------------------------------------- program constants
\* useState(50)
DefaultTopN == 50

VARIABLES
  mounted,     \* the App (and with it TopTable and TickerDetail) is mounted
  appData,     \* App: const [data, setData] = useState(null)
  selected,    \* App: const [selected, setSelected]; TickerDetail's ticker prop
  q,           \* TopTable: filter string
  topN,        \* TopTable: row limit
  rows,        \* TopTable: the rows of the rendered table body
  detData,     \* TickerDetail: const [data, setData] = useState(null)
  view,        \* TickerDetail: which of its three renderings is on screen
  chart,       \* TickerDetail: the chart held by the chart effect's cleanup
  liveCharts,  \* number of Chart instances constructed and not destroyed
  inflight,    \* bag of fetches issued and not yet settled
  issued,      \* the fetches issued by the last step
  logged       \* the console.error calls of the last step

vars == <<mounted, appData, selected, q, topN, rows, detData, view, chart,
          liveCharts, inflight, issued, logged>>

\* --------------------------------------------------------------- JS values
Null == [null |-> TRUE]
\* null in a slot that otherwise holds a string: its one element is no character
NullStr == <<"null">>
\* !ticker
falsy(t) == t = NullStr \/ t = <<>>

\* the characters typed into the search box
Alphabet == {"a", "B", " "}

\* String.prototype.toLowerCase, one character
lowerChar(c) == IF c = "A" THEN "a" ELSE IF c = "B" THEN "b" ELSE c

\* String.prototype.toLowerCase
toLowerCase(s) == [i \in 1..Len(s) |-> lowerChar(s[i])]

\* String.prototype.includes: scan the positions from the left
RECURSIVE includesFrom(_, _, _)
includesFrom(hay, needle, k) ==
  IF k + Len(needle) > Len(hay) THEN FALSE
  ELSE IF SubSeq(hay, k + 1, k + Len(needle)) = needle THEN TRUE
  ELSE includesFrom(hay, needle, k + 1)

includes(hay, needle) == includesFrom(hay, needle, 0)

\* variant of slice0 that takes the end index as inclusive
slice0EndInclusive(arr, end) ==
  LET len == Len(arr)
      final == IF end < 0 THEN (IF len + end + 1 > 0 THEN len + end + 1 ELSE 0)
               ELSE (IF end + 1 < len THEN end + 1 ELSE len)
  IN SubSeq(arr, 1, final)

\* Array.prototype.slice(0, end) for an integer end: a negative end counts
\* from the end of the array
slice0(arr, end) ==
  LET len == Len(arr)
      final == IF end < 0 THEN (IF len + end > 0 THEN len + end ELSE 0)
               ELSE (IF end < len THEN end ELSE len)
  IN SubSeq(arr, 1, final)

DigitVal(c) == CASE c = "0" -> 0 [] c = "1" -> 1 [] c = "2" -> 2 [] c = "3" -> 3
                 [] c = "4" -> 4 [] c = "5" -> 5 [] c = "6" -> 6 [] c = "7" -> 7
                 [] c = "8" -> 8 [] c = "9" -> 9

RECURSIVE digitsValue(_)
digitsValue(s) ==
  IF s = <<>> THEN 0
  ELSE 10 * digitsValue(SubSeq(s, 1, Len(s) - 1)) + DigitVal(s[Len(s)])

\* Number(string) on the values a number input yields: "" or a decimal integer
Number(s) ==
  IF s = <<>> THEN 0
  ELSE IF s[1] = "-" THEN 0 - digitsValue(Tail(s))
  ELSE digitsValue(s)

\* ---------------------------------------------------------------- TopTable
\* it.explanation || ""
explanationOrEmpty(it) ==
  IF "explanation" \in DOMAIN it /\ it.explanation # <<>> THEN it.explanation ELSE <<>>

\* variant of passes that does not lower-case the filter string
passesNoLowerQ(it, qq) ==
  IF qq = <<>> THEN TRUE
  ELSE includes(toLowerCase(it.ticker \o <<" ">> \o explanationOrEmpty(it)), qq)

\* the callback of data.filter
passes(it, qq) ==
  IF qq = <<>> THEN TRUE
  ELSE includes(toLowerCase(it.ticker \o <<" ">> \o explanationOrEmpty(it)),
                toLowerCase(qq))

\* (data || []).filter(...).slice(0, topN)
filtered(data, qq, n) ==
  slice0(SelectSeq(data, LAMBDA it : passes(it, qq)), n)

\* App: data?.top || []
topProp(d) == IF d # Null /\ "top" \in DOMAIN d THEN d.top ELSE <<>>

\* ------------------------------------------------------------------ inputs
RECURSIVE StringsUpTo(_)
StringsUpTo(n) ==
  IF n = 0 THEN {<<>>}
  ELSE LET S == StringsUpTo(n - 1)
       IN S \cup {Append(s, c) : s \in {t \in S : Len(t) = n - 1}, c \in Alphabet}

QStrings == StringsUpTo(MaxQLen)

DigitChar(d) == CASE d = 0 -> "0" [] d = 1 -> "1" [] d = 2 -> "2" [] d = 3 -> "3"
                  [] d = 4 -> "4" [] d = 5 -> "5" [] d = 6 -> "6" [] d = 7 -> "7"
                  [] d = 8 -> "8" [] d = 9 -> "9"

RECURSIVE Decimal(_)
Decimal(n) ==
  IF n < 0 THEN <<"-">> \o Decimal(0 - n)
  ELSE IF n < 10 THEN <<DigitChar(n)>>
  ELSE Append(Decimal(n \div 10), DigitChar(n % 10))

\* what e.target.value of the number box can hold
NumInputs == {<<>>} \cup {Decimal(n) : n \in (0 - MaxN)..MaxN} \cup {Decimal(12)}

RowPool ==
  { [ticker |-> <<"A", "B">>, score_0_100 |-> 70, explanation |-> <<"a", " ", "B">>],
    [ticker |-> <<"B">>, score_0_100 |-> 90, explanation |-> <<>>],
    [ticker |-> <<"A">>, score_0_100 |-> 80],
    [ticker |-> <<"B", "A">>, score_0_100 |-> 60, explanation |-> <<"b", "b">>] }

Tickers == {r.ticker : r \in RowPool}

RECURSIVE RowSeqs(_)
RowSeqs(n) ==
  IF n = 0 THEN {<<>>}
  ELSE LET S == RowSeqs(n - 1)
       IN S \cup {Append(s, r) : s \in {t \in S : Len(t) = n - 1},
                                 r \in RowPool}

\* RankedEntry.ticker values are unique within a SummaryArtifact
UniqueTickers(s) == \A i, j \in 1..Len(s) : s[i].ticker = s[j].ticker => i = j

Summaries ==
  {[generated_at |-> "2024-01-01", top |-> s] :
     s \in {t \in RowSeqs(MaxRows) : UniqueTickers(t)}}

\* the summary artifacts /top_picks.json serves while the App runs
AppSummaries ==
  { [generated_at |-> "2024-01-01",
     top |-> << [ticker |-> <<"A", "B">>, score_0_100 |-> 70,
                 explanation |-> <<"a", " ", "B">>],
                [ticker |-> <<"B">>, score_0_100 |-> 90, explanation |-> <<>>],
                [ticker |-> <<"A">>, score_0_100 |-> 80] >>],
    [generated_at |-> "2024-01-02"] }

\* the filter strings and row limits typed while the App runs
AppQStrings == {<<>>, <<"a">>}
AppNumInputs == {<<>>, <<"2">>}

\* the tickers a parent can hand to a TickerDetail
DetailTickers == {<<"A">>, <<"B">>}
DetailProps == DetailTickers \cup {NullStr, <<>>}

\* ------------------------------------------------------------- the network
SummaryUrl == [kind |-> "summary", ticker |-> NullStr]
DetailUrl(t) == [kind |-> "detail", ticker |-> t]

\* a fetch in flight; live: the component that issued it is still mounted
Request(url, live) == [kind |-> url.kind, ticker |-> url.ticker, live |-> live]
UrlOf(req) == [kind |-> req.kind, ticker |-> req.ticker]

RECURSIVE Requests(_)
Requests(urls) ==
  IF urls = <<>> THEN EmptyBag
  ELSE SetToBag({Request(Head(urls), TRUE)}) (+) Requests(Tail(urls))

\* what /data/{ticker}.json can hold: a DetailArtifact, its history present or not
DetailArtifacts(t) ==
  { [of |-> t, indicators |-> "indicators", history |-> "history"],
    [of |-> t, indicators |-> "indicators"] }

\* ------------------------------------------------------------- TickerDetail
NoChart == [none |-> TRUE]

\* the three returns of the component
render(ticker, data) ==
  IF falsy(ticker) THEN "NoSelection"
  ELSE IF data = Null THEN "Loading"
  ELSE "Loaded"

\* variant of fetchEffect without its dependency list: it runs on every render
fetchEffectEveryRender(first, prevTicker, ticker) ==
  IF falsy(ticker) THEN <<>> ELSE <<DetailUrl(ticker)>>

\* variant of fetchEffect without the if(!ticker) return
fetchEffectNoGuard(first, prevTicker, ticker) ==
  IF first \/ prevTicker # ticker THEN <<DetailUrl(ticker)>> ELSE <<>>

\* useEffect(() => { if(!ticker) return; fetch(...) }, [ticker])
fetchEffect(first, prevTicker, ticker) ==
  IF ~(first \/ prevTicker # ticker) THEN <<>>
  ELSE IF falsy(ticker) THEN <<>>
  ELSE <<DetailUrl(ticker)>>

\* variant of chartCleanup that does not destroy the chart
chartCleanupKeeps(prevChart, live) == live

\* return ()=>{ chart.destroy(); }
chartCleanup(prevChart, live) == IF prevChart # NoChart THEN live - 1 ELSE live

\* useEffect(() => { ... new Chart(ctx, ...) ... }, [data, ticker])
chartEffect(changed, prevChart, live, data, ticker) ==
  IF ~changed THEN [chart |-> prevChart, live |-> live]
  ELSE LET swept == chartCleanup(prevChart, live)
       IN IF data = Null \/ "history" \notin DOMAIN data
            THEN [chart |-> NoChart, live |-> swept]
          ELSE IF render(ticker, data) # "Loaded"
            THEN [chart |-> NoChart, live |-> swept]
          ELSE [chart |-> [label |-> ticker, series |-> data.of], live |-> swept + 1]

\* ---------------------------------------------------------------------- App
\* useEffect(() => { fetch("/top_picks.json", ...) }, [])
summaryEffect(first) == IF first THEN <<SummaryUrl>> ELSE <<>>

\* variant of onSelect that deselects on a click on the selected row
onSelectToggles(prev, t) == IF prev = t THEN NullStr ELSE t

\* onSelect={setSelected}
onSelect(prev, t) == t

\* One commit: render with the new state, then run the effects whose
\* dependencies changed. app: "first" when the App renders for the first time,
\* "update" when it has rendered before, "none" when the TickerDetail stands
\* alone; first: the TickerDetail renders for the first time.
Commit(app, first, nApp, nSel, nQ, nN, nDet, dataChanged, pending) ==
  LET ce == chartEffect(first \/ dataChanged \/ nSel # selected,
                        chart, liveCharts, nDet, nSel)
      urls == fetchEffect(first, selected, nSel)
                \o (IF app = "none" THEN <<>> ELSE summaryEffect(app = "first"))
  IN /\ appData' = nApp
     /\ selected' = nSel
     /\ q' = nQ
     /\ topN' = nN
     /\ rows' = filtered(topProp(nApp), nQ, nN)
     /\ detData' = nDet
     /\ view' = render(nSel, nDet)
     /\ chart' = ce.chart
     /\ liveCharts' = ce.live
     /\ issued' = urls
     /\ inflight' = pending (+) Requests(urls)

Room == BagCardinality(inflight) < MaxInflight

\* the state of the freshly mounted App, its first effects run
Init ==
  /\ mounted = TRUE
  /\ appData = Null
  /\ selected = NullStr
  /\ q = <<>>
  /\ topN = DefaultTopN
  /\ rows = filtered(topProp(Null), <<>>, DefaultTopN)
  /\ detData = Null
  /\ view = render(NullStr, Null)
  /\ chart = NoChart
  /\ liveCharts = 0
  /\ issued = fetchEffect(TRUE, NullStr, NullStr) \o summaryEffect(TRUE)
  /\ inflight = Requests(issued)
  /\ logged = <<>>

\* the page renders <App/>
Mount ==
  /\ ~mounted
  /\ Room
  /\ mounted' = TRUE
  /\ Commit("first", TRUE, Null, NullStr, <<>>, DefaultTopN, Null, FALSE, inflight)
  /\ logged' = <<>>

\* the tree is torn down: effect cleanups run, component state is gone, and
\* the fetches still in flight belong to no mounted component
Unmount ==
  /\ mounted
  /\ mounted' = FALSE
  /\ liveCharts' = chartCleanup(chart, liveCharts)
  /\ chart' = NoChart
  /\ appData' = Null
  /\ selected' = NullStr
  /\ q' = <<>>
  /\ topN' = DefaultTopN
  /\ rows' = <<>>
  /\ detData' = Null
  /\ view' = "NoSelection"
  /\ inflight' = LET dead(r) == Request(UrlOf(r), FALSE)
                 IN [d \in {dead(r) : r \in BagToSet(inflight)} |->
                       BagCardinality([r \in {x \in BagToSet(inflight) : dead(x) = d}
                                         |-> inflight[r]])]
  /\ issued' = <<>>
  /\ logged' = <<>>

\* onClick={()=>onSelect(it.ticker)} on the i-th rendered row
Click(i) ==
  /\ mounted
  /\ i \in 1..Len(rows)
  /\ Room
  /\ Commit("update", FALSE, appData, onSelect(selected, rows[i].ticker), q, topN,
            detData, FALSE, inflight)
  /\ logged' = <<>>
  /\ UNCHANGED mounted

\* onChange={e=>setQ(e.target.value)}
SetQ(s) ==
  /\ mounted
  /\ Commit("update", FALSE, appData, selected, s, topN, detData, FALSE, inflight)
  /\ logged' = <<>>
  /\ UNCHANGED mounted

\* onChange={e=>setTopN(Number(e.target.value))}
SetTopN(s) ==
  /\ mounted
  /\ Commit("update", FALSE, appData, selected, q, Number(s), detData, FALSE, inflight)
  /\ logged' = <<>>
  /\ UNCHANGED mounted

Settle(req) == inflight (-) SetToBag({req})

\* .then(r=>r.json()).then(j=>setData(j)) of the App
SummaryResolved(j) ==
  /\ BagIn(Request(SummaryUrl, TRUE), inflight)
  /\ Commit("update", FALSE, j, selected, q, topN, detData, FALSE,
            Settle(Request(SummaryUrl, TRUE)))
  /\ logged' = <<>>
  /\ UNCHANGED mounted

\* .catch(e=>console.error(e)) of the App
SummaryRejected ==
  /\ BagIn(Request(SummaryUrl, TRUE), inflight)
  /\ inflight' = Settle(Request(SummaryUrl, TRUE))
  /\ logged' = <<Request(SummaryUrl, TRUE)>>
  /\ issued' = <<>>
  /\ UNCHANGED <<mounted, appData, selected, q, topN, rows, detData, view, chart,
                 liveCharts>>

\* .then(r=>r.json()).then(j=>setData(j)) of TickerDetail
DetailResolved(t, j) ==
  /\ BagIn(Request(DetailUrl(t), TRUE), inflight)
  /\ Commit("update", FALSE, appData, selected, q, topN, j, TRUE,
            Settle(Request(DetailUrl(t), TRUE)))
  /\ logged' = <<>>
  /\ UNCHANGED mounted

\* .catch(e=>console.error(e)) of TickerDetail
DetailRejected(t) ==
  /\ BagIn(Request(DetailUrl(t), TRUE), inflight)
  /\ inflight' = Settle(Request(DetailUrl(t), TRUE))
  /\ logged' = <<Request(DetailUrl(t), TRUE)>>
  /\ issued' = <<>>
  /\ UNCHANGED <<mounted, appData, selected, q, topN, rows, detData, view, chart,
                 liveCharts>>

\* a fetch of an unmounted component settles: its setData changes nothing,
\* its catch still logs
OrphanSettled(req, ok) ==
  /\ BagIn(req, inflight)
  /\ ~req.live
  /\ inflight' = Settle(req)
  /\ logged' = IF ok THEN <<>> ELSE <<req>>
  /\ issued' = <<>>
  /\ UNCHANGED <<mounted, appData, selected, q, topN, rows, detData, view, chart,
                 liveCharts>>

AllUrls == {SummaryUrl} \cup {DetailUrl(t) : t \in Tickers}

Next ==
  \/ Mount
  \/ Unmount
  \/ \E i \in 1..MaxRows : Click(i)
  \/ \E s \in AppQStrings : SetQ(s)
  \/ \E s \in AppNumInputs : SetTopN(s)
  \/ \E j \in AppSummaries : SummaryResolved(j)
  \/ SummaryRejected
  \/ \E t \in Tickers : \E j \in DetailArtifacts(t) : DetailResolved(t, j)
  \/ \E t \in Tickers : DetailRejected(t)
  \/ \E u \in AllUrls : \E ok \in BOOLEAN : OrphanSettled(Request(u, FALSE), ok)

Spec == Init /\ [][Next]_vars

\* ------------------------------------------------- TickerDetail on its own
\* a parent renders <TickerDetail ticker={t}/> for the first time
InitDetail ==
  /\ mounted = TRUE
  /\ appData = Null
  /\ selected \in DetailProps
  /\ q = <<>>
  /\ topN = DefaultTopN
  /\ rows = <<>>
  /\ detData = Null
  /\ view = render(selected, Null)
  /\ chart = NoChart
  /\ liveCharts = 0
  /\ issued = fetchEffect(TRUE, NullStr, selected)
  /\ inflight = Requests(issued)
  /\ logged = <<>>

MountDetail(t) ==
  /\ ~mounted
  /\ Room
  /\ mounted' = TRUE
  /\ Commit("none", TRUE, Null, t, <<>>, DefaultTopN, Null, FALSE, inflight)
  /\ logged' = <<>>

\* the parent re-renders with another ticker prop
SetTicker(t) ==
  /\ mounted
  /\ Room
  /\ Commit("none", FALSE, appData, t, q, topN, detData, FALSE, inflight)
  /\ logged' = <<>>
  /\ UNCHANGED mounted

NextDetail ==
  \/ \E t \in DetailProps : MountDetail(t)
  \/ Unmount
  \/ \E t \in DetailProps : SetTicker(t)
  \/ \E t \in DetailTickers : \E j \in DetailArtifacts(t) : DetailResolved(t, j)
  \/ \E t \in DetailTickers : DetailRejected(t)
  \/ \E t \in DetailTickers : \E ok \in BOOLEAN :
       OrphanSettled(Request(DetailUrl(t), FALSE), ok)

SpecDetail == InitDetail /\ [][NextDetail]_vars

\* ----------------------------------------------------- TopTable on its own
\* the table as rendered with a summary artifact loaded and nothing typed yet
InitTable ==
  /\ mounted = TRUE
  /\ appData \in Summaries \cup AppSummaries
  /\ selected = NullStr
  /\ q = <<>>
  /\ topN = DefaultTopN
  /\ rows = filtered(topProp(appData), q, topN)
  /\ detData = Null
  /\ view = render(NullStr, Null)
  /\ chart = NoChart
  /\ liveCharts = 0
  /\ issued = <<>>
  /\ inflight = EmptyBag
  /\ logged = <<>>

NextTable ==
  \/ \E s \in QStrings : SetQ(s)
  \/ \E s \in NumInputs : SetTopN(s)

SpecTable == InitTable /\ [][NextTable]_vars

\* ================================================================== claims
LiveDetail == {r \in BagToSet(inflight) : r.kind = "detail" /\ r.live}

\* C1: a detail fetch that resolves while another ticker is selected must not
\* put its artifact on display: a step that leaves the selection alone and
\* changes the displayed artifact installs the selected ticker's artifact, so
\* that after A then B the view ends with B's artifact and never shows A's.
C1_NoStaleOverwrite ==
  [][(mounted /\ mounted' /\ selected' = selected /\ detData' # detData)
       => detData'.of = selected]_vars

\* C2: every change of the selected ticker discards the loaded artifact and
\* puts the Detail View into Loading for the new ticker.
C2_TickerChangeDiscards ==
  [][(mounted /\ mounted' /\ selected' # selected /\ ~falsy(selected'))
       => (detData' = Null /\ view' = "Loading")]_vars

\* C3: when the detail fetch of the selected ticker fails, the Detail View is
\* in Loading for that ticker after the failure has been logged.
C3_FailureStaysLoading ==
  (mounted /\ ~falsy(selected) /\ logged = <<Request(DetailUrl(selected), TRUE)>>)
    => view = "Loading"

\* C4: a mounted Detail View has at most one live chart, the one its effect
\* holds; an unmounted one has none.
C4_AtMostOneLiveChart ==
  /\ liveCharts \in {0, 1}
  /\ (liveCharts = 1) = (chart # NoChart)
  /\ ~mounted => liveCharts = 0

\* C4 witness: the chart on the canvas was constructed after a ticker switch,
\* in place of the chart drawn when the artifact arrived.
C4_Witness ==
  /\ mounted
  /\ liveCharts = 1
  /\ chart # NoChart
  /\ chart.label # chart.series

\* C5: with a row limit of zero or less the table shows no rows.
C5_NonPositiveLimitShowsNothing == topN <= 0 => rows = <<>>

\* the filter of section 4.2, stated on its own: needle occurs in hay
IsSubstring(needle, hay) ==
  \E i \in 0..Len(hay) : \E j \in i..Len(hay) :
     needle = [k \in 1..(j - i) |-> hay[i + k]]

RowText(it) ==
  it.ticker \o <<" ">> \o (IF "explanation" \in DOMAIN it THEN it.explanation ELSE <<>>)

Matches(it, qq) == qq = <<>> \/ IsSubstring(toLowerCase(qq), toLowerCase(RowText(it)))

Min(a, b) == IF a < b THEN a ELSE b

\* C6: for a row limit N >= 0 the rows shown are the first min(N, number of
\* filtered rows) entries of the filtered sequence, in the artifact's order;
\* with no filter and N >= length they are all the entries.
C6_ShownIsPrefixOfFiltered ==
  LET top == topProp(appData)
      idx == {i \in 1..Len(top) : Matches(top[i], q)}
      before(i) == Cardinality({k \in idx : k < i})
  IN topN >= 0 =>
       /\ Len(rows) = Min(topN, Cardinality(idx))
       /\ \A i \in idx : before(i) < Len(rows) => rows[before(i) + 1] = top[i]
       /\ (q = <<>> /\ topN >= Len(top)) => rows = top

\* C6 witness: the filter drops a row, the limit cuts the filtered rows short,
\* and a row is shown.
C6_Witness ==
  LET top == topProp(appData)
      idx == {i \in 1..Len(top) : Matches(top[i], q)}
  IN /\ topN > 0
     /\ topN < Cardinality(idx)
     /\ Cardinality(idx) < Len(top)
     /\ Len(rows) = topN
     /\ rows[1] # top[1]

\* C7: every row shown matches the filter (the lowercased filter occurs in
\* the lowercased "<ticker> <explanation>", an absent explanation being
\* empty), and when the limit does not truncate a row is shown exactly when
\* it matches.
C7_ShownIffMatches ==
  LET top == topProp(appData)
  IN /\ \A k \in 1..Len(rows) : Matches(rows[k], q)
     /\ topN >= Len(top) =>
          \A i \in 1..Len(top) :
             (\E k \in 1..Len(rows) : rows[k] = top[i]) <=> Matches(top[i], q)

\* C7 witness: a filter with an upper-case letter shows some rows and hides a
\* row that has no explanation.
C7_Witness ==
  LET top == topProp(appData)
  IN /\ q # <<>>
     /\ toLowerCase(q) # q
     /\ topN >= Len(top)
     /\ rows # <<>>
     /\ \E i \in 1..Len(top) :
          /\ "explanation" \notin DOMAIN top[i]
          /\ \A k \in 1..Len(rows) : rows[k] # top[i]

\* C8: while the ticker is none the Detail View shows the prompt, whatever
\* artifact is loaded and whatever fetch is pending, and the step that led
\* there issued no detail fetch.
C8_NoneShowsPromptNoFetch ==
  (mounted /\ falsy(selected)) =>
     /\ view = "NoSelection"
     /\ \A i \in 1..Len(issued) : issued[i].kind # "detail"

\* C8 witness: the ticker is none with an artifact loaded and a fetch pending.
C8_Witness ==
  /\ mounted
  /\ falsy(selected)
  /\ detData # Null
  /\ LiveDetail # {}

\* C9: a step issues the summary fetch exactly when it mounts the App, and a
\* detail fetch for T exactly when it changes the selected ticker to T; no
\* other step (a failed fetch, a click on the selected row) issues a fetch.
C9_OneFetchPerChange ==
  [][issued' =
       (IF mounted' /\ selected' # selected /\ ~falsy(selected')
          THEN <<DetailUrl(selected')>> ELSE <<>>)
       \o (IF ~mounted /\ mounted' THEN <<SummaryUrl>> ELSE <<>>)]_vars

\* C9 witness: the fetch of the selected ticker has just failed, nothing was
\* issued in its place and nothing for that ticker is in flight.
C9_Witness ==
  /\ mounted
  /\ ~falsy(selected)
  /\ logged = <<Request(DetailUrl(selected), TRUE)>>
  /\ issued = <<>>
  /\ LiveDetail = {}

TopTickers(d) == {topProp(d)[i].ticker : i \in 1..Len(topProp(d))}

\* C10: while the App is mounted the selection is none or the ticker of a row
\* of the loaded summary artifact; it changes only to the ticker of a rendered
\* row, never back to none; a step that edits the filter or the row limit
\* leaves it alone and issues no fetch.
C10_SelectionDiscipline ==
  [][(mounted /\ mounted') =>
       /\ selected' \in {NullStr} \cup TopTickers(appData')
       /\ selected # NullStr => selected' # NullStr
       /\ selected' # selected =>
            /\ \E i \in 1..Len(rows) : selected' = rows[i].ticker
            /\ q' = q /\ topN' = topN /\ appData' = appData
       /\ (q' # q \/ topN' # topN) => (selected' = selected /\ issued' = <<>>)]_vars

\* C10 witness: a ticker is selected and the filter hides its row.
C10_Witness ==
  /\ mounted
  /\ selected # NullStr
  /\ q # <<>>
  /\ \A k \in 1..Len(rows) : rows[k].ticker # selected

====
